---- MODULE Spec2Model ----
(***************************************************************************)
(* State-machine model of the Sparstogram histogram engine                 *)
(* (src/src/sparstogram.ts).  Real numbers are exact rationals <<n, d>>    *)
(* in lowest terms with d > 0; +Infinity is <<1, 0>>.                      *)
(***************************************************************************)
EXTENDS Integers, Sequences, FiniteSets

VARIABLES h, lastOp, added, addOnly

vars == <<h, lastOp, added, addOnly>>

----------------------------------------------------------------------------
(* Bounds of the model *)

MaxValue == 3
MaxCount == 3
MaxBudget == 2
MaxAppendCount == 2
MaxOtherLen == 2
(* bounds of the add-only specification *)
MaxAddValue == 5
MaxAddCount == 5
(* bound of the specification of recorded merges and assignments *)
MaxMergeBudget == 3
(* bounds of the lossless specification *)
MaxRankValue == 2
MaxRankCount == 22

Values == 1..MaxValue
AddValues == 1..MaxAddValue

----------------------------------------------------------------------------
(* Exact arithmetic on the numbers the engine computes with *)

Abs(x) == IF x < 0 THEN -x ELSE x

RECURSIVE GCD(_, _)
GCD(a, b) == IF b = 0 THEN a ELSE GCD(b, a % b)

Norm(n, d) ==
    LET g == GCD(Abs(n), d)
    IN  IF n < 0 THEN <<-(Abs(n) \div g), d \div g>> ELSE <<n \div g, d \div g>>

Infinity == <<1, 0>>
Zero == <<0, 1>>
FromInt(i) == <<i, 1>>

RAdd(a, b) == Norm(a[1] * b[2] + b[1] * a[2], a[2] * b[2])
RSub(a, b) == Norm(a[1] * b[2] - b[1] * a[2], a[2] * b[2])
RMul(a, b) == Norm(a[1] * b[1], a[2] * b[2])
RDivInt(a, k) == Norm(a[1], a[2] * k)
RMulInt(a, k) == Norm(a[1] * k, a[2])
RAbs(a) == <<Abs(a[1]), a[2]>>
RLess(a, b) == a[1] * b[2] < b[1] * a[2]
RLeq(a, b) == a[1] * b[2] <= b[1] * a[2]

(* Math.floor and Math.round (round half up) of a non-negative rational *)
Floor(a) == a[1] \div a[2]
Round(a) == (2 * a[1] + a[2]) \div (2 * a[2])

----------------------------------------------------------------------------
(* Data *)

Centroid(v, c, var) == [value |-> v, count |-> c, variance |-> var]
CentroidEntry(c, l) ==
    [value |-> c.value, count |-> c.count, variance |-> c.variance, loss |-> l]
Loss(l, v) == [loss |-> l, value |-> v]

NoCentroid == [value |-> Zero, count |-> 0, variance |-> Zero, loss |-> Zero]
(* an undefined slot of the _markers array *)
NoMarker == [set |-> FALSE, rank |-> 0, centroid |-> NoCentroid, offset |-> 0]
Marker(r, c, o) == [set |-> TRUE, rank |-> r, centroid |-> c, offset |-> o]

(* Quantile lists given to the constructor (all within [0, 1]) *)
Quarter == <<1, 4>>
Half == <<1, 2>>
One == <<1, 1>>
MarkerConfigs == { <<>>, <<Zero, Half>>, <<Quarter, One>> }

----------------------------------------------------------------------------
(* The ordered index over centroids: a sequence ascending by value.        *)

(* find(key): position of the first entry whose value is >= key *)
FindPos(cs, v) == Cardinality({i \in 1..Len(cs) : RLess(cs[i].value, v)}) + 1
(* a lookup that never lands on an entry *)
FindOn_never(cs, v) == FALSE

FindOn(cs, v) == \E i \in 1..Len(cs) : cs[i].value = v

InsertAt(s, i, e) == SubSeq(s, 1, i - 1) \o <<e>> \o SubSeq(s, i, Len(s))
RemoveAt(s, i) == SubSeq(s, 1, i - 1) \o SubSeq(s, i + 1, Len(s))

(* the loss index: records ordered by (loss ascending, value ascending) *)
(* equal losses ordered by descending value *)
LossBefore_valueDescending(a, b) ==
    \/ RLess(a.loss, b.loss)
    \/ (~RLess(b.loss, a.loss) /\ RLess(b.value, a.value))

LossBefore(a, b) ==
    \/ RLess(a.loss, b.loss)
    \/ (~RLess(b.loss, a.loss) /\ RLess(a.value, b.value))
LossFirst(ls) == CHOOSE m \in ls : \A o \in ls \ {m} : LossBefore(m, o)

----------------------------------------------------------------------------
(* Pure helpers *)

combineSharedMean(a, b) ==
    LET count == a.count + b.count
    IN  Centroid(a.value, count,
            RDivInt(RAdd(RMulInt(a.variance, a.count - 1),
                         RMulInt(b.variance, b.count - 1)), count - 1))

combinedVariance(a, b) ==
    LET d == RSub(a.value, b.value)
    IN  RAdd(RDivInt(RAdd(RMulInt(a.variance, a.count),
                          RMulInt(b.variance, b.count)), a.count + b.count - 1),
             RDivInt(RMulInt(RMul(d, d), a.count * b.count), a.count + b.count))

computeLoss_signed(a, b) ==
    RAdd(RMulInt(RSub(a.value, b.value), a.count + b.count),
         combinedVariance(a, b))

computeLoss(a, b) ==
    RAdd(RMulInt(RAbs(RSub(a.value, b.value)), a.count + b.count),
         combinedVariance(a, b))

rankAtMean_halves(entry) == entry.count \div 2

rankAtMean(entry) ==
    IF entry.variance = Zero THEN entry.count ELSE entry.count \div 2

(* calculateDensity for a centroid of variance 0; the Gaussian density of a *)
(* centroid with variance > 0 is irrational and is not modelled (Unmodelled) *)
Unmodelled == -1
calculateDensity(value, mean, variance) ==
    IF variance = Zero THEN (IF value = mean THEN 1 ELSE 0) ELSE Unmodelled

inferCount(value, centroid) ==
    IF centroid.variance = Zero
    THEN calculateDensity(value, centroid.value, centroid.variance) * centroid.count
    ELSE Unmodelled

Max(a, b) == IF a >= b THEN a ELSE b
Min(a, b) == IF a <= b THEN a ELSE b

interpolateCount(value, centroidA, centroidB) ==
    IF centroidA.variance = Zero /\ centroidB.variance = Zero
    THEN Max(calculateDensity(value, centroidA.value, centroidA.variance) * centroidA.count,
             calculateDensity(value, centroidB.value, centroidB.variance) * centroidB.count)
    ELSE Unmodelled

----------------------------------------------------------------------------
(* The engine.  A histogram instance is a record:                          *)
(*   centroids     the Centroid Index (_centroids), ascending by value     *)
(*   losses        the Loss Index (_losses), a set of (loss, value)        *)
(*   centroidCount _centroidCount                                          *)
(*   count         _count                                                  *)
(*   maxCentroids  _maxCentroids                                           *)
(*   quantiles     the frozen constructor argument `markers`               *)
(*   markers       _markers                                                *)
(*   fault         an index lookup that the code assumes to succeed failed *)

Sparstogram(maxCentroids, quantiles) ==
    [centroids |-> <<>>, losses |-> {}, centroidCount |-> 0, count |-> 0,
     maxCentroids |-> maxCentroids, quantiles |-> quantiles,
     markers |-> [i \in 1..Len(quantiles) |-> NoMarker], fault |-> FALSE]

(* the new record inserted and the old one left behind *)
lossesUpdateAt_keepsOld(hh, old, new) ==
    IF old \in hh.losses
    THEN [hh EXCEPT !.losses = @ \cup {new}]
    ELSE [hh EXCEPT !.fault = TRUE]

(* _losses.updateAt(_losses.find(old), new) *)
lossesUpdateAt(hh, old, new) ==
    IF old \in hh.losses
    THEN [hh EXCEPT !.losses = (@ \ {old}) \cup {new}]
    ELSE [hh EXCEPT !.fault = TRUE]

(* _losses.deleteAt(_losses.find(old)) *)
lossesDeleteAt(hh, old) ==
    IF old \in hh.losses
    THEN [hh EXCEPT !.losses = @ \ {old}]
    ELSE [hh EXCEPT !.fault = TRUE]

(* prior is the entry at position pos - 1, for a path on pos or the crack before pos *)
getPriorLoss(hh, pos, newCentroid) ==
    IF pos - 1 >= 1 THEN computeLoss(hh.centroids[pos - 1], newCentroid) ELSE Infinity

(* the successor's loss left as it was *)
updateNext_skipped(hh, pos, newCentroid) == hh

updateNext(hh, pos, newCentroid) ==
    IF pos + 1 <= Len(hh.centroids)
    THEN LET nextEntry == hh.centroids[pos + 1]
             newLoss == computeLoss(newCentroid, nextEntry)
             h1 == [hh EXCEPT !.centroids[pos + 1] = CentroidEntry(nextEntry, newLoss)]
         IN  lossesUpdateAt(h1, Loss(nextEntry.loss, nextEntry.value),
                            Loss(newLoss, nextEntry.value))
    ELSE hh

(* the ideal rank of a marker: Math.round(markers[i] * (_count - 1)) + 1 *)
markerNewRank_zeroBased(hh, q) == Round(RMulInt(q, hh.count - 1))

markerNewRank_fullCount(hh, q) == Round(RMulInt(q, hh.count)) + 1

markerNewRank(hh, q) == Round(RMulInt(q, hh.count - 1)) + 1

(* one marker's step of updateMarkers; hh already holds the new centroid and count *)
updateMarker(hh, marker, q, value) ==
    IF ~marker.set
    THEN Marker(1, hh.centroids[1], 0)
    ELSE LET rank1 == IF RLess(value, marker.centroid.value)
                      THEN marker.rank + 1 ELSE marker.rank
             newRank == markerNewRank(hh, q)
             pos == FindPos(hh.centroids, marker.centroid.value)
             on == FindOn(hh.centroids, marker.centroid.value)
             nextPos == IF on THEN pos + 1 ELSE pos
             priorPos == pos - 1
         IN  IF newRank > rank1
             THEN IF marker.offset < marker.centroid.count - 1
                  THEN Marker(rank1 + 1, marker.centroid, marker.offset + 1)
                  ELSE IF nextPos <= Len(hh.centroids)
                       THEN Marker(rank1 + 1, hh.centroids[nextPos], 0)
                       ELSE Marker(rank1 + 1, marker.centroid, marker.offset)
             ELSE IF newRank < rank1
             THEN IF marker.offset > 0
                  THEN Marker(rank1 - 1, marker.centroid, marker.offset - 1)
                  ELSE IF priorPos >= 1
                       THEN Marker(rank1 - 1, hh.centroids[priorPos],
                                   hh.centroids[priorPos].count - 1)
                       ELSE Marker(rank1 - 1, marker.centroid, marker.offset)
             ELSE Marker(rank1, marker.centroid, marker.offset)

updateMarkers(hh, value) ==
    [hh EXCEPT !.markers =
        [i \in 1..Len(hh.markers) |-> updateMarker(hh, hh.markers[i], hh.quantiles[i], value)]]

(* the markers updated on the increment path as well *)
insertOrIncrementBucket_marksIncrement(hh, centroid) ==
    LET pos == FindPos(hh.centroids, centroid.value)
    IN  IF FindOn(hh.centroids, centroid.value)
        THEN LET entry == hh.centroids[pos]
                 newCentroid == combineSharedMean(entry, centroid)
                 newLoss == getPriorLoss(hh, pos, newCentroid)
                 h1 == [hh EXCEPT !.centroids[pos] = CentroidEntry(newCentroid, newLoss)]
                 h2 == lossesUpdateAt(h1, Loss(entry.loss, entry.value),
                                      Loss(newLoss, entry.value))
             IN  updateMarkers(updateNext(h2, pos, newCentroid), centroid.value)
        ELSE LET loss == getPriorLoss(hh, pos, centroid)
                 h1 == [hh EXCEPT !.centroidCount = @ + 1,
                                  !.centroids = InsertAt(@, pos, CentroidEntry(centroid, loss)),
                                  !.losses = @ \cup {Loss(loss, centroid.value)}]
                 h2 == updateNext(h1, pos, centroid)
             IN  updateMarkers(h2, centroid.value)

insertOrIncrementBucket(hh, centroid) ==
    LET pos == FindPos(hh.centroids, centroid.value)
    IN  IF FindOn(hh.centroids, centroid.value)
        THEN LET entry == hh.centroids[pos]
                 newCentroid == combineSharedMean(entry, centroid)
                 newLoss == getPriorLoss(hh, pos, newCentroid)
                 h1 == [hh EXCEPT !.centroids[pos] = CentroidEntry(newCentroid, newLoss)]
                 h2 == lossesUpdateAt(h1, Loss(entry.loss, entry.value),
                                      Loss(newLoss, entry.value))
             IN  updateNext(h2, pos, newCentroid)
        ELSE LET loss == getPriorLoss(hh, pos, centroid)
                 h1 == [hh EXCEPT !.centroidCount = @ + 1,
                                  !.centroids = InsertAt(@, pos, CentroidEntry(centroid, loss)),
                                  !.losses = @ \cup {Loss(loss, centroid.value)}]
                 h2 == updateNext(h1, pos, centroid)
             IN  updateMarkers(h2, centroid.value)

countAt(hh, value) ==
    LET pos == FindPos(hh.centroids, value)
    IN  IF FindOn(hh.centroids, value)
        THEN rankAtMean(hh.centroids[pos])
        ELSE IF pos <= Len(hh.centroids) /\ pos - 1 >= 1
             THEN interpolateCount(value, hh.centroids[pos - 1], hh.centroids[pos])
             ELSE IF pos <= Len(hh.centroids)
                  THEN inferCount(value, hh.centroids[pos])
                  ELSE IF pos - 1 >= 1
                       THEN inferCount(value, hh.centroids[pos - 1])
                       ELSE 0

(* the entry compressOneBucket selects: the first record of the Loss Index *)
minLossEntry(hh) == LossFirst(hh.losses)

(* the marker on the entry merged away is dropped instead of retargeted *)
compressMarker_dropped(marker, priorEntry, minEntry, newEntry) ==
    IF marker.centroid.value = priorEntry.value
    THEN [marker EXCEPT !.centroid = newEntry]
    ELSE IF marker.centroid.value = minEntry.value
         THEN NoMarker
         ELSE marker

compressMarker(marker, priorEntry, minEntry, newEntry) ==
    IF marker.centroid.value = priorEntry.value
    THEN [marker EXCEPT !.centroid = newEntry]
    ELSE IF marker.centroid.value = minEntry.value
         THEN [marker EXCEPT !.offset = @ + minEntry.count, !.centroid = newEntry]
         ELSE marker

(* the merged centroid placed halfway between the two *)
mergedCentroid_midpoint(priorEntry, minEntry) ==
    Centroid(RDivInt(RAdd(priorEntry.value, minEntry.value), 2),
             priorEntry.count + minEntry.count,
             combinedVariance(priorEntry, minEntry))

(* newCentroid of compressOneBucket: weighted-mean value, summed count *)
mergedCentroid(priorEntry, minEntry) ==
    Centroid(RDivInt(RAdd(RMulInt(priorEntry.value, priorEntry.count),
                          RMulInt(minEntry.value, minEntry.count)),
                     priorEntry.count + minEntry.count),
             priorEntry.count + minEntry.count,
             combinedVariance(priorEntry, minEntry))

compressOneBucket(hh) ==
    LET minPos == FindPos(hh.centroids, minLossEntry(hh).value)
        priorPos == minPos - 1
    IN  IF hh.losses = {} \/ ~FindOn(hh.centroids, minLossEntry(hh).value) \/ priorPos < 1
        THEN [hh EXCEPT !.fault = TRUE]
        ELSE
        LET minEntry == hh.centroids[minPos]
            priorEntry == hh.centroids[priorPos]
            newCentroid == mergedCentroid(priorEntry, minEntry)
            loss == IF priorPos - 1 >= 1
                    THEN computeLoss(hh.centroids[priorPos - 1], newCentroid)
                    ELSE Infinity
            newEntry == CentroidEntry(newCentroid, loss)
            h1 == [hh EXCEPT !.markers =
                     [i \in 1..Len(hh.markers) |->
                        compressMarker(hh.markers[i], priorEntry, minEntry, newEntry)]]
            cs1 == RemoveAt(h1.centroids, priorPos)
            cs2 == RemoveAt(cs1, FindPos(cs1, minEntry.value))
            newPos == FindPos(cs2, newEntry.value)
            h2 == [h1 EXCEPT !.centroids = InsertAt(cs2, newPos, newEntry)]
            h3 == lossesDeleteAt(h2, minLossEntry(hh))
            h4 == lossesDeleteAt(h3, Loss(priorEntry.loss, priorEntry.value))
            h5 == [h4 EXCEPT !.losses = @ \cup {Loss(loss, newEntry.value)}]
            h6 == updateNext(h5, newPos, newCentroid)
        IN  [h6 EXCEPT !.centroidCount = @ - 1]

(* returning the loss stored on the merged entry instead of minEntry.loss *)
compressLoss_merged(hh) ==
    LET minPos == FindPos(hh.centroids, minLossEntry(hh).value)
    IN  compressOneBucket(hh).centroids[minPos - 1].loss

(* the value compressOneBucket returns: minEntry.loss *)
compressLoss(hh) ==
    hh.centroids[FindPos(hh.centroids, minLossEntry(hh).value)].loss

(* while (_centroidCount > _maxCentroids) compressOneBucket() *)
RECURSIVE compressWhile(_)
compressWhile(hh) ==
    IF hh.centroidCount > hh.maxCentroids /\ ~hh.fault
    THEN compressWhile(compressOneBucket(hh))
    ELSE hh

RECURSIVE insertAll(_, _)
insertAll(hh, cs) ==
    IF cs = <<>> THEN hh
    ELSE insertAll(insertOrIncrementBucket(hh, Head(cs)), Tail(cs))

RECURSIVE SumCounts(_)
SumCounts(cs) == IF cs = <<>> THEN 0 ELSE Head(cs).count + SumCounts(Tail(cs))

addInserted_countNotAdded(hh, centroid) == insertOrIncrementBucket(hh, centroid)

(* the state add/append are in after insertOrIncrementBucket, before compressing *)
addInserted(hh, centroid) ==
    insertOrIncrementBucket([hh EXCEPT !.count = @ + centroid.count], centroid)

addState_noCompress(hh, centroid) == addInserted(hh, centroid)

addState(hh, centroid) ==
    LET h1 == addInserted(hh, centroid)
    IN  IF h1.centroidCount > h1.maxCentroids THEN compressOneBucket(h1) ELSE h1

addResult(hh, centroid) ==
    LET h1 == addInserted(hh, centroid)
    IN  IF h1.centroidCount > h1.maxCentroids THEN compressLoss(h1) ELSE Zero

(* append of each centroid in turn: addState, folded over the sequence *)
RECURSIVE appendAll(_, _)
appendAll(hh, cs) ==
    IF cs = <<>> THEN hh ELSE appendAll(addState(hh, Head(cs)), Tail(cs))

(* compression run inside the loop, after each insertion *)
mergeFrom_compressEach(hh, other) == appendAll(hh, other)

mergeFrom_countNotAdded(hh, other) == compressWhile(insertAll(hh, other))

mergeFrom_noCompress(hh, other) ==
    insertAll([hh EXCEPT !.count = @ + SumCounts(other)], other)

mergeFrom(hh, other) ==
    compressWhile(insertAll([hh EXCEPT !.count = @ + SumCounts(other)], other))

setMaxCentroids_noCompress(hh, value) == [hh EXCEPT !.maxCentroids = Floor(value)]

(* the setter past its check: floor, then compress while over the budget *)
setMaxCentroids(hh, value) ==
    compressWhile([hh EXCEPT !.maxCentroids = Floor(value)])

(* the replay of a merge through the public operations: maxCentroids is   *)
(* raised so that nothing compresses, each centroid of other is appended   *)
(* in ascending value order, and maxCentroids is restored                  *)
replayMerge(hh, other) ==
    LET raised == setMaxCentroids(hh, FromInt(Max(1, hh.centroidCount + Len(other))))
    IN  setMaxCentroids(appendAll(raised, other), FromInt(hh.maxCentroids))

(* A call that throws leaves the histogram as the statements run before   *)
(* the throw made it.                                                      *)

(* only a negative budget rejected *)
maxCentroidsRejected_negativeOnly(value) == RLess(value, Zero)

(* if (value < 1) throw *)
maxCentroidsRejected(value) == RLess(value, One)

(* the check made only after the new budget was stored *)
maxCentroidsThrown_stored(hh, value) == [hh EXCEPT !.maxCentroids = Floor(value)]

(* the histogram a rejected assignment leaves: nothing ran before the throw *)
maxCentroidsThrown(hh, value) == hh

(* if (centroid.count < 1) throw; if (centroid.variance < 0) throw *)
appendRejected(centroid) ==
    IF centroid.count < 1 THEN TRUE ELSE RLess(centroid.variance, Zero)

(* the count added before the centroid is checked *)
appendThrown_counted(hh, centroid) == [hh EXCEPT !.count = @ + centroid.count]

(* the histogram a rejected append leaves: nothing ran before the throw *)
appendThrown(hh, centroid) == hh

(* new Sparstogram(maxCentroids, markers) throws: a quantile outside [0, 1], *)
(* or the setter rejecting Math.floor(maxCentroids)                          *)
constructorRejected(maxCentroids, quantiles) ==
    IF \E i \in 1..Len(quantiles) :
           RLess(quantiles[i], Zero) \/ RLess(One, quantiles[i])
    THEN TRUE
    ELSE maxCentroidsRejected(FromInt(Floor(maxCentroids)))

----------------------------------------------------------------------------
(* Queries.  A query reads the indexes and assigns no field of the engine: *)
(* it is an operator from the histogram to a result, and a result with     *)
(* thrown = TRUE stands for the Error the code throws.                     *)

(* inferValueFromOffset for a centroid of variance 0; with variance > 0 the *)
(* value is mean + sqrt(variance) * scalar, irrational in general, and is   *)
(* not modelled (UnmodelledValue)                                           *)
UnmodelledValue == <<0, 0>>
inferValueFromOffset(offset, centroid) ==
    IF centroid.variance = Zero THEN centroid.value ELSE UnmodelledValue

Quantile(r, c, o) ==
    [thrown |-> FALSE, rank |-> r, centroid |-> c, offset |-> o,
     value |-> inferValueFromOffset(o, c)]
Thrown ==
    [thrown |-> TRUE, rank |-> 0, centroid |-> NoCentroid, offset |-> 0,
     value |-> Zero]

(* the scan of valueAt from position i on, with remainingRank left *)
RECURSIVE valueAtFrom(_, _, _, _)
valueAtFrom(cs, i, rank, remainingRank) ==
    IF i > Len(cs) THEN Thrown
    ELSE IF remainingRank <= cs[i].count
         THEN Quantile(rank, cs[i], remainingRank - 1)
         ELSE valueAtFrom(cs, i + 1, rank, remainingRank - cs[i].count)

(* the scan started as if rank counted from 0 *)
valueAt_zeroBased(hh, rank) == valueAtFrom(hh.centroids, 1, rank, rank + 1)

(* the scan never asked for more than the histogram holds *)
valueAt_clamped(hh, rank) ==
    valueAtFrom(hh.centroids, 1, rank, IF rank > hh.count THEN hh.count ELSE rank)

valueAt(hh, rank) == valueAtFrom(hh.centroids, 1, rank, rank)

quantileAt(hh, quantile) == valueAt(hh, Round(RMulInt(quantile, hh.count)))

(* markerAt(index): index counts from 0; _markers[index] is undefined when *)
(* no markers were given, for an index outside the list, and for a marker  *)
(* not populated yet                                                       *)
markerAt(hh, index) ==
    IF index + 1 \in 1..Len(hh.markers) /\ hh.markers[index + 1].set
    THEN LET marker == hh.markers[index + 1]
         IN  Quantile(marker.rank, marker.centroid, marker.offset)
    ELSE Thrown

(* the total count of the first i centroids in ascending value order *)
CumCount(cs, i) == SumCounts(SubSeq(cs, 1, i))

(* IEEE 754 binary64 numbers as rankAt computes with them.  A positive     *)
(* double is [m1, m2, m3, exp]: its 53-bit significand is                  *)
(* m1 * 2^36 + m2 * 2^18 + m3 with 2^16 <= m1 < 2^17 and m2, m3 < 2^18,    *)
(* and its value is significand * 2^exp.                                   *)
Limb == 262144
TopLimb == 131072
Double(m1, m2, m3, exp) == [m1 |-> m1, m2 |-> m2, m3 |-> m3, exp |-> exp]
DZero == Double(0, 0, 0, 0)
DOne == Double(TopLimb \div 2, 0, 0, -52)
DUnmodelled == Double(-1, 0, 0, 0)

RECURSIVE Pow2(_)
Pow2(j) == IF j = 0 THEN 1 ELSE 2 * Pow2(j - 1)

(* the least j with a * 2^j >= b *)
RECURSIVE LeadingShift(_, _)
LeadingShift(a, b) == IF a >= b THEN 0 ELSE 1 + LeadingShift(2 * a, b)

(* the number of bits of k *)
RECURSIVE BitLen(_)
BitLen(k) == IF k = 0 THEN 0 ELSE 1 + BitLen(k \div 2)

(* the significand plus one unit in the last place *)
NextUp(x) ==
    IF x.m3 + 1 < Limb THEN [x EXCEPT !.m3 = @ + 1]
    ELSE IF x.m2 + 1 < Limb THEN [x EXCEPT !.m3 = 0, !.m2 = @ + 1]
    ELSE IF x.m1 + 1 < TopLimb THEN [x EXCEPT !.m3 = 0, !.m2 = 0, !.m1 = @ + 1]
    ELSE Double(TopLimb \div 2, 0, 0, x.exp + 1)

(* round to nearest, ties to even: x is the exact result truncated to 53   *)
(* bits and rem / unit the fraction of a unit in the last place cut off    *)
RoundNearestEven(x, rem, unit) ==
    IF 2 * rem > unit \/ (2 * rem = unit /\ x.m3 % 2 = 1) THEN NextUp(x) ELSE x

(* a / b in binary64 for integers 0 < a < b < 2^13 (the weight of one of   *)
(* two centroids), by long division, 16 + 18 + 18 quotient bits after the  *)
(* leading one                                                             *)
DDiv(a, b) ==
    LET j == LeadingShift(a, b)
        n1 == a * Pow2(j) * (TopLimb \div 2)
        n2 == (n1 % b) * Limb
        n3 == (n2 % b) * Limb
    IN  RoundNearestEven(Double(n1 \div b, n2 \div b, n3 \div b, -52 - j), n3 % b, b)

(* x * n in binary64, n an integer with 1 <= n < 2^13: the exact product,  *)
(* limb by limb, shifted right until 53 bits are left, and rounded         *)
DMulInt(x, n) ==
    IF x = DUnmodelled THEN DUnmodelled
    ELSE IF x = DZero THEN DZero
    ELSE LET p3 == x.m3 * n
             p2 == x.m2 * n + p3 \div Limb
             p1 == x.m1 * n + p2 \div Limb
             l3 == p3 % Limb
             l2 == p2 % Limb
             shift == BitLen(p1) - 17
             cut == Pow2(shift)
             keep == Limb \div cut
         IN  RoundNearestEven(Double(p1 \div cut,
                                     (p1 % cut) * keep + l2 \div cut,
                                     (l2 % cut) * keep + l3 \div cut,
                                     x.exp + shift),
                              l3 % cut, cut)

(* cdf * weight, the cdf being 0 or 1 *)
DMul(cdf, weight) ==
    IF cdf = DZero THEN DZero
    ELSE IF cdf = DOne THEN weight
    ELSE DUnmodelled

(* a + b where one of the two is 0 *)
DAdd(a, b) ==
    IF a = DUnmodelled \/ b = DUnmodelled THEN DUnmodelled
    ELSE IF a = DZero THEN b
    ELSE IF b = DZero THEN a
    ELSE DUnmodelled

(* Math.floor of a double below 2^17 *)
DFloor(x) ==
    IF x = DZero THEN 0
    ELSE IF x = DUnmodelled \/ x.exp > -36 THEN Unmodelled
    ELSE IF -x.exp - 36 >= 17 THEN 0
    ELSE x.m1 \div Pow2(-x.exp - 36)

(* normalCDF of a centroid of variance 0 at x # mean: the standard deviation *)
(* is 0, (x - mean) / 0 is +Infinity or -Infinity, erf of it is 1 or -1, and *)
(* the result is 1 above the mean and 0 below it.  The Gaussian CDF of a     *)
(* centroid with variance > 0 is not modelled.                               *)
normalCDF(x, mean, variance) ==
    IF variance = Zero /\ x # mean
    THEN (IF RLess(mean, x) THEN DOne ELSE DZero)
    ELSE DUnmodelled

interpolateCentroids(value, centroidA, centroidB) ==
    LET cdfA == normalCDF(value, centroidA.value, centroidA.variance)
        cdfB == normalCDF(value, centroidB.value, centroidB.variance)
        totalCounts == centroidA.count + centroidB.count
        weightA == DDiv(centroidA.count, totalCounts)
        weightB == DDiv(centroidB.count, totalCounts)
    IN  DAdd(DMul(cdfA, weightA), DMul(cdfB, weightB))

interpolateRank(value, centroidA, centroidB) ==
    DFloor(DMulInt(interpolateCentroids(value, centroidA, centroidB),
                   centroidA.count + centroidB.count))

inferRank(value, centroid) ==
    DFloor(DMulInt(normalCDF(value, centroid.value, centroid.variance), centroid.count))

(* rank plus the counts of the entries at positions 1..upto *)
rankPlusPrior(hh, rank, upto) ==
    IF rank = Unmodelled THEN Unmodelled ELSE rank + CumCount(hh.centroids, upto)

rankAt(hh, value) ==
    LET cs == hh.centroids
        pos == FindPos(cs, value)
        on == FindOn(cs, value)
        priorOn == pos - 1 >= 1
        nextOn == pos <= Len(cs)
    IN  IF on THEN rankPlusPrior(hh, rankAtMean(cs[pos]), pos - 1)
        ELSE IF nextOn /\ priorOn
             THEN rankPlusPrior(hh, interpolateRank(value, cs[pos - 1], cs[pos]), pos - 2)
        ELSE IF nextOn THEN inferRank(value, cs[pos])
        ELSE IF priorOn
             THEN rankPlusPrior(hh, inferRank(value, cs[pos - 1]), pos - 2)
        ELSE 0

(* peaks(smoothing): one ascending pass with two sliding windows.  A peak  *)
(* is a record; the variable `peak` (Peak | undefined) is a sequence of at *)
(* most one record, and the result is the sequence of the peaks yielded.   *)
Peak(start, end, max, min, sum) ==
    [start |-> start, end |-> end, max |-> max, min |-> min, sum |-> sum]

(* the end of the candidate left where it was *)
updatePeak_endKept(c, existing) ==
    IF existing # <<>>
    THEN <<Peak(existing[1].start, existing[1].end, Max(existing[1].max, c.count),
                Min(existing[1].min, c.count), existing[1].sum + c.count)>>
    ELSE <<Peak(c.value, c.value, c.count, c.count, c.count)>>

updatePeak(c, existing) ==
    IF existing # <<>>
    THEN <<Peak(existing[1].start, c.value, Max(existing[1].max, c.count),
                Min(existing[1].min, c.count), existing[1].sum + c.count)>>
    ELSE <<Peak(c.value, c.value, c.count, c.count, c.count)>>

(* the trend compared as soon as the leading window is full *)
windowsFull_rightOnly(left, right, smoothing) ==
    left # <<>> /\ Len(right) = smoothing

(* left.length === smoothing && right.length === smoothing *)
windowsFull(left, right, smoothing) ==
    Len(left) = smoothing /\ Len(right) = smoothing

(* the average count of a window: reduce((a, b) => a + b.count, 0) / smoothing *)
windowAverage(window, smoothing) == Norm(SumCounts(window), smoothing)

(* the pass of peaks from position i on *)
RECURSIVE peaksFrom(_, _, _, _, _, _, _)
peaksFrom(cs, i, smoothing, left, right, peak, trend) ==
    IF i > Len(cs) THEN peak
    ELSE
    LET pushed == Append(right, cs[i])
        over == Len(pushed) > smoothing
        right1 == IF over THEN Tail(pushed) ELSE pushed
        left1 == IF over THEN Append(left, Head(pushed)) ELSE left
        left2 == IF Len(left1) > smoothing THEN Tail(left1) ELSE left1
    IN  IF windowsFull(left2, right1, smoothing)
        THEN LET newTrend == IF RLeq(windowAverage(left2, smoothing),
                                     windowAverage(right1, smoothing))
                             THEN 1 ELSE -1
                 last == left2[Len(left2)]
             IN  IF trend = 1 /\ newTrend = -1
                 THEN peaksFrom(cs, i + 1, smoothing, left2, right1,
                                updatePeak(last, peak), -1)
                 ELSE IF trend = -1 /\ newTrend = 1
                 THEN peak \o peaksFrom(cs, i + 1, smoothing, left2, right1,
                                        updatePeak(last, <<>>), 1)
                 ELSE peaksFrom(cs, i + 1, smoothing, left2, right1,
                                updatePeak(last, peak), trend)
        ELSE peaksFrom(cs, i + 1, smoothing, left2, right1, peak, trend)

peaks(hh, smoothing) == peaksFrom(hh.centroids, 1, smoothing, <<>>, <<>>, <<>>, 1)

(* Iteration.  The optional criteria argument is a record: given = FALSE   *)
(* stands for undefined, and hasMarkerIndex / hasValue tell which of the    *)
(* two optional fields are defined.  A start path is [thrown, given, on,    *)
(* pos]; the result of an iteration is [thrown, modelled, items].           *)
Criteria(given, hasMarkerIndex, markerIndex, hasValue, value) ==
    [given |-> given, hasMarkerIndex |-> hasMarkerIndex, markerIndex |-> markerIndex,
     hasValue |-> hasValue, value |-> value]
NoCriteria == Criteria(FALSE, FALSE, 0, FALSE, Zero)

StartPath(on, pos) == [thrown |-> FALSE, given |-> TRUE, on |-> on, pos |-> pos]
NoStartPath == [thrown |-> FALSE, given |-> FALSE, on |-> FALSE, pos |-> 0]
ThrownPath == [thrown |-> TRUE, given |-> FALSE, on |-> FALSE, pos |-> 0]

(* _centroids.find(value) as a start path *)
findPath(hh, value) == StartPath(FindOn(hh.centroids, value), FindPos(hh.centroids, value))

(* a criteria with both fields defined starts at the marker *)
criteriaToPath_markerWins(hh, criteria) ==
    IF ~criteria.given THEN NoStartPath
    ELSE IF ~criteria.hasMarkerIndex /\ ~criteria.hasValue THEN ThrownPath
    ELSE IF criteria.hasMarkerIndex
         THEN IF markerAt(hh, criteria.markerIndex).thrown THEN ThrownPath
              ELSE findPath(hh, markerAt(hh, criteria.markerIndex).centroid.value)
         ELSE findPath(hh, criteria.value)

criteriaToPath(hh, criteria) ==
    IF ~criteria.given THEN NoStartPath
    ELSE IF criteria.hasMarkerIndex /\ criteria.hasValue THEN ThrownPath
    ELSE IF ~criteria.hasMarkerIndex /\ ~criteria.hasValue THEN ThrownPath
    ELSE IF criteria.hasMarkerIndex
         THEN IF markerAt(hh, criteria.markerIndex).thrown THEN ThrownPath
              ELSE findPath(hh, markerAt(hh, criteria.markerIndex).centroid.value)
         ELSE findPath(hh, criteria.value)

Items(items) == [thrown |-> FALSE, modelled |-> TRUE, items |-> items]
ThrownItems == [thrown |-> TRUE, modelled |-> TRUE, items |-> <<>>]
(* iteration from a start path that is not on an entry is the ordered      *)
(* index's business and is not modelled                                    *)
UnmodelledItems == [thrown |-> FALSE, modelled |-> FALSE, items |-> <<>>]

(* the iteration leaves out the entry it starts on *)
iterateAscending_skipsStart(cs, pos) == SubSeq(cs, pos + 1, Len(cs))

(* _centroids.ascending(path): the entries from position pos to the last *)
iterateAscending(cs, pos) == SubSeq(cs, pos, Len(cs))

(* _centroids.descending(path): the entries from position pos down to the first *)
iterateDescending(cs, pos) == [i \in 1..pos |-> cs[pos + 1 - i]]

(* criteriaToPath(criteria) ?? _centroids.first() *)
ascending(hh, criteria) ==
    LET startPath == criteriaToPath(hh, criteria)
    IN  IF startPath.thrown THEN ThrownItems
        ELSE IF ~startPath.given THEN Items(iterateAscending(hh.centroids, 1))
        ELSE IF startPath.on THEN Items(iterateAscending(hh.centroids, startPath.pos))
        ELSE UnmodelledItems

(* criteriaToPath(criteria) ?? _centroids.last() *)
descending(hh, criteria) ==
    LET startPath == criteriaToPath(hh, criteria)
    IN  IF startPath.thrown THEN ThrownItems
        ELSE IF ~startPath.given
             THEN Items(iterateDescending(hh.centroids, Len(hh.centroids)))
        ELSE IF startPath.on THEN Items(iterateDescending(hh.centroids, startPath.pos))
        ELSE UnmodelledItems

----------------------------------------------------------------------------
(* Inputs *)

Variances == {Zero, One}
MinusOne == <<-1, 1>>

ValidCentroids ==
    { Centroid(FromInt(v), c, var) :
        v \in Values, c \in 1..MaxAppendCount, var \in Variances }

(* centroids append rejects: count < 1, variance < 0, or both *)
InvalidCentroids ==
    { Centroid(One, 0, Zero), Centroid(One, 1, MinusOne), Centroid(One, 0, MinusOne) }

(* centroids a caller may pass to append, valid or not *)
AppendInputs == ValidCentroids \cup InvalidCentroids

(* what other.ascending() yields for another instance: centroids in strictly *)
(* ascending value order, each with count >= 1 and variance >= 0; other.count *)
(* is the sum of their counts                                                 *)
OtherHistograms ==
    UNION { { s \in [1..n -> ValidCentroids] :
                /\ \A i \in 1..(n - 1) : RLess(s[i].value, s[i + 1].value)
                /\ SumCounts(s) <= MaxCount } :
            n \in 0..MaxOtherLen }

(* values assigned to maxCentroids: multiples of one half, from 0 *)
BudgetInputs == { Norm(n, 2) : n \in 0..(2 * MaxBudget + 1) }

(* budgets and quantile lists given to the constructor, valid or not *)
ConstructorBudgets == { Norm(n, 2) : n \in (-2)..(2 * MaxBudget + 1) }
ConstructorQuantiles == MarkerConfigs \cup { <<MinusOne>>, <<Half, FromInt(2)>> }

MaxAdded == Max(MaxValue, Max(MaxAddValue, MaxRankValue))
NoneAdded == [v \in 1..MaxAdded |-> 0]

(* the stored losses of the Centroid Index and their minimum *)
StoredLosses(cs) == {cs[i].loss : i \in 1..Len(cs)}
MinStoredLoss(cs) == CHOOSE m \in StoredLosses(cs) : \A o \in StoredLosses(cs) : RLeq(m, o)

(* The last call and what it returned.  For add and append, compressed tells *)
(* whether the call went over budget and ran compressOneBucket, and minLoss  *)
(* is the least loss stored in the Centroid Index right after the insertion, *)
(* before that compression.                                                  *)
Op(op, ret) ==
    [op |-> op, ret |-> ret, compressed |-> FALSE, minLoss |-> Zero,
     arg |-> Zero, before |-> 0]

(* a call recorded with its argument (for mergeFrom the pair (other.count, *)
(* other.centroidCount), for a maxCentroids assignment the value assigned) *)
(* and the centroidCount the histogram had before the call                 *)
OpArg(op, arg, hh) ==
    [op |-> op, ret |-> Zero, compressed |-> FALSE, minLoss |-> Zero,
     arg |-> arg, before |-> hh.centroidCount]

OpInsert(op, hh, centroid) ==
    LET h1 == addInserted(hh, centroid)
        over == h1.centroidCount > h1.maxCentroids
    IN  [op |-> op, ret |-> addResult(hh, centroid), compressed |-> over,
         minLoss |-> IF over THEN MinStoredLoss(h1.centroids) ELSE Zero,
         arg |-> Zero, before |-> 0]

----------------------------------------------------------------------------
(* Specification *)

Init ==
    /\ \E m \in ConstructorBudgets, qs \in ConstructorQuantiles :
          /\ ~constructorRejected(m, qs)
          /\ h = Sparstogram(Floor(m), qs)
    /\ lastOp = Op("new", Zero)
    /\ added = NoneAdded
    /\ addOnly = TRUE

(* the centroid add(value) inserts: { value, variance: 0, count: 1 } *)
UnitCentroid(v) == Centroid(FromInt(v), 1, Zero)

AddStep(v) ==
    /\ h' = addState(h, UnitCentroid(v))
    /\ lastOp' = OpInsert("add", h, UnitCentroid(v))
    /\ added' = IF addOnly THEN [added EXCEPT ![v] = @ + 1] ELSE added
    /\ UNCHANGED addOnly

CallAdd(v) ==
    /\ h.count + 1 <= MaxCount
    /\ AddStep(v)

CallAppend(c) ==
    /\ ~appendRejected(c)
    /\ h.count + c.count <= MaxCount
    /\ h' = addState(h, c)
    /\ lastOp' = OpInsert("append", h, c)
    /\ added' = NoneAdded
    /\ addOnly' = FALSE

CallAppendThrows(c) ==
    /\ appendRejected(c)
    /\ h' = appendThrown(h, c)
    /\ lastOp' = Op("appendThrows", Zero)
    /\ UNCHANGED <<added, addOnly>>

MergeFromStep(other) ==
    /\ h.count + SumCounts(other) <= MaxCount
    /\ h' = mergeFrom(h, other)
    /\ added' = NoneAdded
    /\ addOnly' = FALSE

CallMergeFrom(other) ==
    /\ MergeFromStep(other)
    /\ lastOp' = Op("mergeFrom", Zero)

SetMaxCentroidsStep(value) ==
    /\ ~maxCentroidsRejected(value)
    /\ h' = setMaxCentroids(h, value)
    /\ added' = NoneAdded
    /\ addOnly' = FALSE

CallSetMaxCentroids(value) ==
    /\ SetMaxCentroidsStep(value)
    /\ lastOp' = Op("setMaxCentroids", Zero)

CallSetMaxCentroidsThrows(value) ==
    /\ maxCentroidsRejected(value)
    /\ h' = maxCentroidsThrown(h, value)
    /\ lastOp' = Op("setMaxCentroidsThrows", Zero)
    /\ UNCHANGED <<added, addOnly>>

Next ==
    \/ \E v \in Values : CallAdd(v)
    \/ \E c \in AppendInputs : CallAppend(c)
    \/ \E c \in AppendInputs : CallAppendThrows(c)
    \/ \E other \in OtherHistograms : CallMergeFrom(other)
    \/ \E value \in BudgetInputs : CallSetMaxCentroids(value)
    \/ \E value \in BudgetInputs : CallSetMaxCentroidsThrows(value)

Spec == Init /\ [][Next]_vars

(* Add-only histories, over more values and longer runs *)
InitAdds ==
    /\ \E m \in 1..MaxAddValue, qs \in MarkerConfigs : h = Sparstogram(m, qs)
    /\ lastOp = Op("new", Zero)
    /\ added = NoneAdded
    /\ addOnly = TRUE

CallAddOnly(v) ==
    /\ h.count + 1 <= MaxAddCount
    /\ AddStep(v)

NextAdds == \E v \in AddValues : CallAddOnly(v)

SpecAdds == InitAdds /\ [][NextAdds]_vars

(* Lossless histories: long add-only runs over few values, with a budget that *)
(* holds every distinct value, so that no compression ever happens            *)
InitLossless ==
    /\ h = Sparstogram(MaxRankValue, <<>>)
    /\ lastOp = Op("new", Zero)
    /\ added = NoneAdded
    /\ addOnly = TRUE

CallAddLossless(v) ==
    /\ h.count + 1 <= MaxRankCount
    /\ AddStep(v)

NextLossless == \E v \in 1..MaxRankValue : CallAddLossless(v)

SpecLossless == InitLossless /\ [][NextLossless]_vars

(* Merges and budget assignments recorded with their arguments, between adds, *)
(* over budgets up to MaxMergeBudget                                          *)
MergeBudgetInputs == { Norm(n, 2) : n \in 2..(2 * MaxMergeBudget + 1) }

InitMerge ==
    /\ \E m \in 1..MaxMergeBudget, qs \in MarkerConfigs :
          h = Sparstogram(m, qs)
    /\ lastOp = Op("new", Zero)
    /\ added = NoneAdded
    /\ addOnly = TRUE

CallMergeFromRecorded(other) ==
    /\ MergeFromStep(other)
    /\ lastOp' = OpArg("mergeFrom", <<SumCounts(other), Len(other)>>, h)

CallSetMaxCentroidsRecorded(value) ==
    /\ SetMaxCentroidsStep(value)
    /\ lastOp' = OpArg("setMaxCentroids", value, h)

NextMerge ==
    \/ \E v \in Values : CallAdd(v)
    \/ \E other \in OtherHistograms : CallMergeFromRecorded(other)
    \/ \E value \in MergeBudgetInputs : CallSetMaxCentroidsRecorded(value)

SpecMerge == InitMerge /\ [][NextMerge]_vars

----------------------------------------------------------------------------
(* Properties *)

MarkerIndices == 1..Len(h.markers)

(* C1: after every add, append, mergeFrom and maxCentroids assignment, count *)
(* equals the sum of the count fields of all live centroids.                 *)
C1_CountIsSumOfCentroidCounts == h.count = SumCounts(h.centroids)

(* a merge of several centroids has been drained by compression *)
C1_Witness ==
    /\ lastOp.op = "mergeFrom"
    /\ h.count >= 3
    /\ Len(h.centroids) = 1

(* C2: after construction and after every add, append, mergeFrom and        *)
(* maxCentroids assignment, centroidCount <= maxCentroids.                  *)
C2_WithinBudget == h.centroidCount <= h.maxCentroids

(* an add went over budget and its single compression brought it back *)
C2_Witness ==
    /\ lastOp.op = "add"
    /\ lastOp.ret # Zero
    /\ h.centroidCount = h.maxCentroids
    /\ h.maxCentroids = 2

(* history of an add-only run: the distinct values added so far *)
DistinctAdded == {v \in DOMAIN added : added[v] > 0}

(* C3: lossless regime.  In an add-only history whose number of distinct    *)
(* values never exceeds maxCentroids every add returns 0, the live          *)
(* centroids are exactly the distinct values added, each with variance 0    *)
(* and count equal to its multiplicity, and countAt(v) is that count.       *)
C3_Lossless ==
    (addOnly /\ Cardinality(DistinctAdded) <= h.maxCentroids) =>
        /\ lastOp.op = "add" => lastOp.ret = Zero
        /\ {h.centroids[i].value : i \in 1..Len(h.centroids)}
             = {FromInt(v) : v \in DistinctAdded}
        /\ Len(h.centroids) = Cardinality(DistinctAdded)
        /\ \A v \in DistinctAdded :
             LET e == h.centroids[FindPos(h.centroids, FromInt(v))]
             IN  /\ e.value = FromInt(v)
                 /\ e.variance = Zero
                 /\ e.count = added[v]
                 /\ countAt(h, FromInt(v)) = added[v]

(* a value was added three times next to another distinct value *)
C3_Witness ==
    /\ addOnly
    /\ lastOp.op = "add"
    /\ Cardinality(DistinctAdded) = 2
    /\ Cardinality(DistinctAdded) <= h.maxCentroids
    /\ \E v \in DOMAIN added : added[v] = 3 /\ countAt(h, FromInt(v)) = 3

(* C4: add(value) returns 0 when it triggers no compression, and otherwise  *)
(* the loss the minimum-loss entry carried right after the insertion and    *)
(* before the merge (the minimum over all stored losses at that point).     *)
C4_AddReturnsPreMergeLoss ==
    lastOp.op = "add" =>
        lastOp.ret = IF lastOp.compressed THEN lastOp.minLoss ELSE Zero

(* an add compressed, and the loss now stored on the merged entry's successor differs *)
C4_Witness ==
    /\ lastOp.op = "add"
    /\ lastOp.compressed
    /\ lastOp.ret = lastOp.minLoss
    /\ Len(h.centroids) = 2
    /\ h.centroids[2].loss # lastOp.ret

(* C5: an add or append that pushes centroidCount above maxCentroids and so *)
(* triggers a compression returns a loss strictly greater than 0.           *)
C5_CompressionLossPositive ==
    (lastOp.op \in {"add", "append"} /\ lastOp.compressed) => RLess(Zero, lastOp.ret)

(* an append compressed and reported a positive finite loss *)
C5_Witness ==
    /\ lastOp.op = "append"
    /\ lastOp.compressed
    /\ RLess(Zero, lastOp.ret)
    /\ RLess(lastOp.ret, Infinity)

(* C6: in an add-only history of pairwise distinct values without           *)
(* compression, after every add each marker with target quantile q has      *)
(* rank = round(q*(count-1)) + 1, offset = 0, and its centroid is the       *)
(* rank-th smallest value added so far.                                     *)
C6_DistinctAddsKeepMarkersExact ==
    (/\ addOnly
     /\ lastOp.op = "add"
     /\ \A v \in DOMAIN added : added[v] <= 1
     /\ Cardinality(DistinctAdded) <= h.maxCentroids) =>
        \A i \in MarkerIndices :
            LET m == h.markers[i]
                r == Round(RMulInt(h.quantiles[i], h.count - 1)) + 1
            IN  /\ m.set
                /\ m.rank = r
                /\ m.offset = 0
                /\ m.centroid.value = h.centroids[r].value

(* three distinct values were added and the median marker sits on the middle one *)
C6_Witness ==
    /\ addOnly
    /\ lastOp.op = "add"
    /\ \A v \in DOMAIN added : added[v] <= 1
    /\ Cardinality(DistinctAdded) = 3
    /\ h.maxCentroids >= 3
    /\ \E i \in MarkerIndices :
          /\ h.quantiles[i] = Half
          /\ h.markers[i].rank = 2
          /\ h.markers[i].centroid.value = h.centroids[2].value

(* C7: after every add, including one that repeats a value already present, *)
(* each marker with target quantile q has rank = round(q*(count-1)) + 1.    *)
C7_MarkersMaintainedOnEveryAdd ==
    lastOp.op = "add" =>
        \A i \in MarkerIndices :
            h.markers[i].set /\
            h.markers[i].rank = Round(RMulInt(h.quantiles[i], h.count - 1)) + 1

(* the live entry stored in the Centroid Index under a marker's centroid value *)
LiveEntries(m) ==
    {j \in 1..Len(h.centroids) : h.centroids[j].value = m.centroid.value}

(* C8: after every public operation each populated marker's centroid is a   *)
(* live entry: its value, count and variance equal those of the entry       *)
(* stored in the Centroid Index under that value.                           *)
C8_MarkerCentroidIsLive ==
    \A i \in MarkerIndices :
        h.markers[i].set =>
            \E j \in LiveEntries(h.markers[i]) :
                /\ h.centroids[j].count = h.markers[i].centroid.count
                /\ h.centroids[j].variance = h.markers[i].centroid.variance

(* C9: after every public operation every populated marker satisfies        *)
(* 0 <= offset < count of the live centroid it tracks.                      *)
C9_MarkerOffsetInRange ==
    \A i \in MarkerIndices :
        h.markers[i].set =>
            \E j \in LiveEntries(h.markers[i]) :
                /\ 0 <= h.markers[i].offset
                /\ h.markers[i].offset < h.centroids[j].count

(* C10: after every public operation every populated marker satisfies       *)
(* 1 <= rank <= count.                                                      *)
C10_MarkerRankInRange ==
    \A i \in MarkerIndices :
        h.markers[i].set => (1 <= h.markers[i].rank /\ h.markers[i].rank <= h.count)

(* a marker reached the top rank of a compressed histogram after a merge *)
C10_Witness ==
    /\ lastOp.op = "mergeFrom"
    /\ h.count = MaxCount
    /\ Len(h.centroids) < h.count
    /\ \E i \in MarkerIndices : h.markers[i].set /\ h.markers[i].rank = h.count

(* C11: for every rank r with 1 <= r <= count, valueAt(r) succeeds with     *)
(* rank = r, centroid = the first centroid in ascending value order whose   *)
(* cumulative count reaches r, and offset = r - (counts of all preceding    *)
(* centroids) - 1, so that 0 <= offset < centroid.count.                    *)
C11_ValueAtLocatesRank ==
    \A r \in 1..h.count :
        LET q == valueAt(h, r)
        IN  /\ ~q.thrown
            /\ q.rank = r
            /\ \E i \in 1..Len(h.centroids) :
                  /\ CumCount(h.centroids, i) >= r
                  /\ \A j \in 1..(i - 1) : CumCount(h.centroids, j) < r
                  /\ q.centroid = h.centroids[i]
                  /\ q.offset = r - CumCount(h.centroids, i - 1) - 1
            /\ 0 <= q.offset
            /\ q.offset < q.centroid.count

(* the top rank falls inside a second centroid that holds several values *)
C11_Witness ==
    /\ Len(h.centroids) = 2
    /\ h.centroids[2].count >= 2
    /\ ~valueAt(h, h.count).thrown
    /\ valueAt(h, h.count).centroid = h.centroids[2]
    /\ valueAt(h, h.count).offset = h.centroids[2].count - 1
    /\ valueAt(h, 2).offset = 0

(* ranks and quantiles the queries are asked for *)
MaxOverRank == 2
RankArgs == (-1)..(MaxCount + MaxOverRank)
QuantileArgs == {Zero, Quarter, Half, One}

(* C12: valueAt(r) throws (rank out of range) whenever r > count, and on an *)
(* empty histogram valueAt and quantileAt throw for every argument; the     *)
(* histogram is the same after the failure, valueAt assigning nothing.      *)
C12_ValueAtOutOfRange ==
    /\ \A r \in (h.count + 1)..(h.count + MaxOverRank) : valueAt(h, r).thrown
    /\ h.count = 0 =>
          /\ \A r \in RankArgs : valueAt(h, r).thrown
          /\ \A q \in QuantileArgs : quantileAt(h, q).thrown

(* a compressed histogram answers its top rank and throws one rank above it *)
C12_Witness ==
    /\ h.count = MaxCount
    /\ Len(h.centroids) < h.count
    /\ ~valueAt(h, h.count).thrown
    /\ valueAt(h, h.count + 1).thrown

(* the points rankAt is asked for: the values added and the gaps around them *)
RankPoints == { Norm(n, 2) : n \in 1..(2 * MaxRankValue + 1) }

(* history of an add-only run: how many of the values added are <= x *)
RECURSIVE AddedBelow(_, _)
AddedBelow(x, v) ==
    IF v = 0 THEN 0
    ELSE (IF RLeq(FromInt(v), x) THEN added[v] ELSE 0) + AddedBelow(x, v - 1)
AddedUpTo(x) == AddedBelow(x, MaxAdded)

AllVarianceZero == \A i \in 1..Len(h.centroids) : h.centroids[i].variance = Zero

(* C13: while every centroid has variance 0, rankAt(x) equals the number of *)
(* values added that are <= x, for x equal to a stored value, between two   *)
(* stored values, below the smallest and above the largest; on an empty     *)
(* histogram rankAt returns 0.                                              *)
C13_LosslessRankAt ==
    (addOnly /\ AllVarianceZero) =>
        \A x \in RankPoints : rankAt(h, x) = AddedUpTo(x)

(* C14: in every reachable state, compressed or not, rankAt(x) is monotonic *)
(* non-decreasing in x: for all x <= y, rankAt(x) <= rankAt(y).  (Stated    *)
(* over the points where rankAt is modelled.)                               *)
C14_RankAtMonotonic ==
    \A x, y \in RankPoints :
        (RLeq(x, y) /\ rankAt(h, x) # Unmodelled /\ rankAt(h, y) # Unmodelled) =>
            rankAt(h, x) <= rankAt(h, y)

(* C15: after target.mergeFrom(other), target.count equals its previous     *)
(* count plus other.count, the total that replaying other's raw values      *)
(* through add would give (each add counting one).                          *)
C15_MergeAddsCounts ==
    [][lastOp'.op = "mergeFrom" => h'.count = h.count + lastOp'.arg[1]]_vars

(* a histogram of two centroids and count 2 was merged into a non-empty target *)
C15_Witness ==
    /\ lastOp.op = "mergeFrom"
    /\ lastOp.arg = <<2, 2>>
    /\ h.count = 3

(* C16, as stated: after target.mergeFrom(other), the target's centroidCount *)
(* exceeds neither the target's previous centroidCount, nor other's          *)
(* centroidCount, nor maxCentroids.                                          *)
C16_MergeWithinEitherInput ==
    [][lastOp'.op = "mergeFrom" =>
         /\ h'.centroidCount <= h.centroidCount
         /\ h'.centroidCount <= lastOp'.arg[2]
         /\ h'.centroidCount <= h'.maxCentroids]_vars

(* C16, amended: after target.mergeFrom(other), the target's centroidCount  *)
(* never exceeds the sum of the two inputs' centroidCounts (the target's    *)
(* before the merge plus other's) nor the configured budget maxCentroids.   *)
C16_MergeWithinBudgetAndSum ==
    [][lastOp'.op = "mergeFrom" =>
         /\ h'.centroidCount <= lastOp'.before + lastOp'.arg[2]
         /\ h'.centroidCount <= h'.maxCentroids]_vars

(* a single-centroid histogram was merged into a target that held one value, *)
(* and the target now has two centroids, more than either input had          *)
C16_Witness ==
    /\ lastOp.op = "mergeFrom"
    /\ lastOp.arg[2] = 1
    /\ h.count = lastOp.arg[1] + 1
    /\ h.centroidCount = 2

(* C17: assigning maxCentroids = n with n >= 1 sets maxCentroids to         *)
(* floor(n) and compresses until centroidCount = min(previous centroidCount, *)
(* floor(n)); count is unchanged, and when floor(n) >= centroidCount no     *)
(* centroid, loss record or marker changes.                                 *)
C17_AssignBudget ==
    [][lastOp'.op = "setMaxCentroids" =>
         /\ \E k \in 1..MaxMergeBudget :
               /\ RLeq(FromInt(k), lastOp'.arg)
               /\ RLess(lastOp'.arg, FromInt(k + 1))
               /\ h'.maxCentroids = k
               /\ h'.centroidCount = Min(h.centroidCount, k)
               /\ k >= h.centroidCount =>
                     /\ h'.centroids = h.centroids
                     /\ h'.losses = h.losses
                     /\ h'.markers = h.markers
         /\ h'.count = h.count]_vars

(* an assignment took a histogram of three centroids down to one *)
C17_Witness ==
    /\ lastOp.op = "setMaxCentroids"
    /\ lastOp.before = 3
    /\ h.centroidCount = 1
    /\ h.maxCentroids = 1
    /\ h.count = 3

(* C18: constructing with, or assigning, a maxCentroids value below 1       *)
(* throws; a failed assignment leaves maxCentroids, every centroid, count,  *)
(* centroidCount and every marker unchanged.                                *)
C18_BudgetBelowOneRejected ==
    /\ \A m \in ConstructorBudgets, qs \in MarkerConfigs :
          RLess(m, One) => constructorRejected(m, qs)
    /\ \A value \in BudgetInputs :
          RLess(value, One) =>
              /\ maxCentroidsRejected(value)
              /\ maxCentroidsThrown(h, value) = h

(* an assignment has just been rejected on a compressed histogram with markers *)
C18_Witness ==
    /\ lastOp.op = "setMaxCentroidsThrows"
    /\ h.count = MaxCount
    /\ h.centroidCount < h.count
    /\ \E i \in MarkerIndices : h.markers[i].set

(* C19: append(centroid) with count < 1 or variance < 0 throws before any   *)
(* mutation: count, centroidCount, every centroid, every loss record and    *)
(* every marker are unchanged.                                              *)
C19_InvalidAppendRejected ==
    \A c \in AppendInputs :
        (c.count < 1 \/ RLess(c.variance, Zero)) =>
            /\ appendRejected(c)
            /\ appendThrown(h, c) = h

(* an append has just been rejected on a compressed histogram with markers *)
C19_Witness ==
    /\ lastOp.op = "appendThrows"
    /\ h.count = MaxCount
    /\ h.centroidCount < h.count
    /\ \E i \in MarkerIndices : h.markers[i].set

(* the indices markerAt is asked for, configured or not *)
MaxMarkerIndex == 2
MarkerArgs == (-1)..MaxMarkerIndex
ConfiguredIndices == 0..(Len(h.quantiles) - 1)

(* C20: markerAt(i) throws when no markers were configured, when i is not a *)
(* configured index, or when no value has been added yet; the first value   *)
(* added initialises every configured marker to rank 1, offset 0 on the     *)
(* sole centroid; and from then on markerAt(i) succeeds for every           *)
(* configured i after any further operation (a marker that answers keeps    *)
(* answering: markers are retargeted, never destroyed).                     *)
C20_MarkerAtLifecycle ==
    /\ [](\A i \in MarkerArgs :
             (i \notin ConfiguredIndices \/ h.count = 0) => markerAt(h, i).thrown)
    /\ [](h.count = 0 =>
             \A c \in ValidCentroids, i \in ConfiguredIndices :
                 LET first == markerAt(addState(h, c), i)
                 IN  /\ ~first.thrown
                     /\ first.rank = 1
                     /\ first.offset = 0
                     /\ addState(h, c).centroidCount = 1
                     /\ first.centroid = addState(h, c).centroids[1])
    /\ [](h.count > 0 => \A i \in ConfiguredIndices : ~markerAt(h, i).thrown)
    /\ [][\A i \in MarkerArgs :
             ~markerAt(h, i).thrown => ~markerAt(h', i).thrown]_vars

(* both markers answer on a histogram a merge has compressed to one centroid, *)
(* and an index past the list still throws                                    *)
C20_Witness ==
    /\ lastOp.op = "mergeFrom"
    /\ h.count = MaxCount
    /\ h.centroidCount = 1
    /\ Len(h.quantiles) = 2
    /\ ~markerAt(h, 0).thrown
    /\ ~markerAt(h, 1).thrown
    /\ markerAt(h, 1).centroid = h.centroids[1]
    /\ markerAt(h, 2).thrown

(* the smoothing widths peaks is asked for *)
MaxSmoothing == 2
Smoothings == 1..MaxSmoothing

(* C21: if the histogram holds fewer than 2*smoothing centroids (the two    *)
(* windows are never full together), peaks(smoothing) yields no peaks.      *)
C21_TooFewCentroidsNoPeaks ==
    \A s \in Smoothings : Len(h.centroids) < 2 * s => peaks(h, s) = <<>>

(* three centroids: too few for smoothing 2, enough for smoothing 1 *)
C21_Witness ==
    /\ Len(h.centroids) = 3
    /\ peaks(h, 2) = <<>>
    /\ peaks(h, 1) # <<>>

(* the counts of cs strictly rise to position k and strictly fall after it *)
RisesThenFalls(cs, k) ==
    /\ \A i \in 1..(k - 1) : cs[i].count < cs[i + 1].count
    /\ \A i \in k..(Len(cs) - 1) : cs[i].count > cs[i + 1].count

(* C22: when the centroid counts, in ascending value order, strictly rise   *)
(* to a single maximum and then strictly fall, peaks(1) yields exactly one  *)
(* peak: it starts at the smallest centroid value, ends at the value of the *)
(* next-to-last centroid, and its max is the largest count.                 *)
C22_UnimodalSinglePeak ==
    \A k \in 2..(Len(h.centroids) - 1) :
        RisesThenFalls(h.centroids, k) =>
            /\ Len(peaks(h, 1)) = 1
            /\ peaks(h, 1)[1].start = h.centroids[1].value
            /\ peaks(h, 1)[1].end = h.centroids[Len(h.centroids) - 1].value
            /\ peaks(h, 1)[1].max = h.centroids[k].count

(* three centroids whose counts rise to the second: the peak ends on the   *)
(* second centroid, short of the last                                      *)
C22_Witness ==
    /\ Len(h.centroids) = 3
    /\ RisesThenFalls(h.centroids, 2)
    /\ Len(peaks(h, 1)) = 1
    /\ peaks(h, 1)[1].end = h.centroids[2].value
    /\ peaks(h, 1)[1].max = h.centroids[2].count

(* the centroids whose value lies within the range of a peak *)
InPeak(p) ==
    {i \in 1..Len(h.centroids) :
        RLeq(p.start, h.centroids[i].value) /\ RLeq(h.centroids[i].value, p.end)}

(* C23: every peak yielded by peaks(1) is a local maximum: within its       *)
(* [start, end] range there is a centroid whose count is greater than the   *)
(* counts of its value-order predecessor, if any, and of its successor.     *)
C23_PeakIsLocalMaximum ==
    \A n \in 1..Len(peaks(h, 1)) :
        \E i \in InPeak(peaks(h, 1)[n]) :
            /\ i > 1 => h.centroids[i].count > h.centroids[i - 1].count
            /\ i < Len(h.centroids) =>
                  h.centroids[i].count > h.centroids[i + 1].count

(* C24: ascending() with no criteria yields every live centroid exactly    *)
(* once in strictly increasing value order (centroidCount of them, their    *)
(* counts adding up to count), and descending() yields the same centroids   *)
(* in exactly the reverse order; iterating assigns no field of the engine,  *)
(* and each call yields the sequence afresh.                                *)
C24_IterationOrder ==
    LET up == ascending(h, NoCriteria)
        down == descending(h, NoCriteria)
    IN  /\ ~up.thrown /\ up.modelled
        /\ ~down.thrown /\ down.modelled
        /\ Len(up.items) = h.centroidCount
        /\ SumCounts(up.items) = h.count
        /\ \A i \in 1..(Len(up.items) - 1) :
              RLess(up.items[i].value, up.items[i + 1].value)
        /\ {up.items[i] : i \in 1..Len(up.items)}
             = {h.centroids[i] : i \in 1..Len(h.centroids)}
        /\ Len(down.items) = Len(up.items)
        /\ \A i \in 1..Len(up.items) :
              down.items[i] = up.items[Len(up.items) + 1 - i]

(* a compressed histogram of four centroids is iterated both ways *)
C24_Witness ==
    /\ h.centroidCount = 4
    /\ h.count > 4
    /\ Len(ascending(h, NoCriteria).items) = 4
    /\ descending(h, NoCriteria).items[1] = h.centroids[4]
    /\ descending(h, NoCriteria).items[4] = ascending(h, NoCriteria).items[1]

(* the criteria objects the iterators are asked with *)
CriteriaValues == { FromInt(v) : v \in AddValues }
BothCriteria == { Criteria(TRUE, TRUE, i, TRUE, v) : i \in MarkerArgs, v \in CriteriaValues }
EmptyCriteria == Criteria(TRUE, FALSE, 0, FALSE, Zero)
MarkerCriteria(i) == Criteria(TRUE, TRUE, i, FALSE, Zero)

(* C25: iterating ascending or descending with a criteria object that gives *)
(* both markerIndex and value, or gives neither, fails, and a markerIndex   *)
(* naming an unconfigured or not-yet-populated marker fails; the iterators  *)
(* assign no field of the engine, so no failure changes any state.          *)
C25_InvalidCriteriaRejected ==
    /\ \A c \in BothCriteria \cup {EmptyCriteria} :
          ascending(h, c).thrown /\ descending(h, c).thrown
    /\ \A i \in MarkerArgs :
          (i \notin ConfiguredIndices \/ h.count = 0) =>
              /\ ascending(h, MarkerCriteria(i)).thrown
              /\ descending(h, MarkerCriteria(i)).thrown

(* with two markers populated, iteration from marker 1 answers, and fails   *)
(* from marker 2 and when a value is given along with marker 1              *)
C25_Witness ==
    /\ Len(h.quantiles) = 2
    /\ h.centroidCount >= 2
    /\ ~ascending(h, MarkerCriteria(1)).thrown
    /\ ascending(h, MarkerCriteria(1)).modelled
    /\ ascending(h, MarkerCriteria(1)).items # <<>>
    /\ ascending(h, MarkerCriteria(2)).thrown
    /\ descending(h, Criteria(TRUE, TRUE, 1, TRUE, h.centroids[1].value)).thrown

(* the count-weighted sum of the centroid values: sum of value * count *)
RECURSIVE WeightedSum(_)
WeightedSum(cs) ==
    IF cs = <<>> THEN Zero
    ELSE RAdd(RMulInt(Head(cs).value, Head(cs).count), WeightedSum(Tail(cs)))

(* history of an add-only run: the sum of all values added *)
RECURSIVE SumAddedUpTo(_)
SumAddedUpTo(v) == IF v = 0 THEN 0 ELSE v * added[v] + SumAddedUpTo(v - 1)
SumAdded == SumAddedUpTo(MaxAdded)

C27_StoredLossIsCurrent ==
    \A i \in 1..Len(h.centroids) :
        h.centroids[i].loss =
            IF i = 1 THEN Infinity
            ELSE computeLoss(h.centroids[i - 1], h.centroids[i])

(* a compression merged the first two of three centroids, and the loss of  *)
(* the successor was rewritten against the merged entry                    *)
C27_Witness ==
    /\ lastOp.op \in {"add", "append"}
    /\ lastOp.compressed
    /\ Len(h.centroids) = 2
    /\ h.centroids[1].count >= 2
    /\ h.centroids[1].variance # Zero
    /\ h.centroids[2].loss = computeLoss(h.centroids[1], h.centroids[2])
    /\ h.centroids[2].loss # lastOp.ret

(* C28: after every public operation the Loss Index holds exactly one      *)
(* record per centroid entry and no others, each record's (loss, value)    *)
(* being its entry's loss and value; and every lookup of a loss record     *)
(* during insert, increment and merge found it.                            *)
C28_LossIndexMirrorsCentroids ==
    /\ h.losses = {Loss(h.centroids[i].loss, h.centroids[i].value) :
                       i \in 1..Len(h.centroids)}
    /\ Cardinality(h.losses) = Len(h.centroids)
    /\ ~h.fault

(* a merge incremented an entry, inserted another and compressed, and the  *)
(* Loss Index holds the two records of the two entries left                *)
C28_Witness ==
    /\ lastOp.op = "mergeFrom"
    /\ h.count = MaxCount
    /\ Len(h.centroids) = 2
    /\ h.centroids[2].variance # Zero
    /\ Cardinality(h.losses) = 2
    /\ Loss(h.centroids[2].loss, h.centroids[2].value) \in h.losses

(* the values of the live centroids *)
LiveValues(cs) == {cs[i].value : i \in 1..Len(cs)}

(* C29: after every public operation centroidCount equals the number of    *)
(* entries stored in the Centroid Index, no two entries share a value      *)
(* (values strictly ascending), and the value of the centroid one more     *)
(* compression would merge collides with no other live centroid.           *)
C29_CentroidIndexConsistent ==
    /\ h.centroidCount = Len(h.centroids)
    /\ \A i \in 1..(Len(h.centroids) - 1) :
          RLess(h.centroids[i].value, h.centroids[i + 1].value)
    /\ h.centroidCount >= 2 =>
          /\ Cardinality(LiveValues(compressOneBucket(h).centroids))
               = h.centroidCount - 1
          /\ compressOneBucket(h).centroidCount = h.centroidCount - 1

(* a merge left three centroids, and one more compression would put a     *)
(* merged centroid halfway between two of them, next to the third          *)
C29_Witness ==
    /\ lastOp.op = "mergeFrom"
    /\ h.centroidCount = 3
    /\ Len(compressOneBucket(h).centroids) = 2
    /\ \E i \in 1..2 : compressOneBucket(h).centroids[i].value[2] = 2

(* same value, count and variance *)
SameCentroid(a, b) ==
    a.value = b.value /\ a.count = b.count /\ a.variance = b.variance

(* C30: each compression merges exactly the adjacent pair (prior, min)     *)
(* where min is the entry with the globally minimum stored loss, ties      *)
(* broken by the smaller value; the pair is replaced by one centroid with  *)
(* count = prior.count + min.count and value = the count-weighted mean of  *)
(* the two, centroidCount drops by exactly 1, and every other centroid     *)
(* keeps its value, count and variance.                                    *)
C30_CompressionMergesMinLossPair ==
    h.centroidCount >= 2 =>
        LET cs == h.centroids
            after == compressOneBucket(h)
        IN  \E k \in 2..Len(cs) :
                /\ \A j \in 1..Len(cs) :
                      \/ j = k
                      \/ RLess(cs[k].loss, cs[j].loss)
                      \/ (cs[k].loss = cs[j].loss /\ k < j)
                /\ after.centroidCount = h.centroidCount - 1
                /\ Len(after.centroids) = Len(cs) - 1
                /\ after.centroids[k - 1].count = cs[k - 1].count + cs[k].count
                /\ RMulInt(after.centroids[k - 1].value, cs[k - 1].count + cs[k].count)
                     = RAdd(RMulInt(cs[k - 1].value, cs[k - 1].count),
                            RMulInt(cs[k].value, cs[k].count))
                /\ \A j \in 1..(k - 2) : SameCentroid(after.centroids[j], cs[j])
                /\ \A j \in (k + 1)..Len(cs) : SameCentroid(after.centroids[j - 1], cs[j])

(* of four centroids the third and the fourth carry the same, least loss: *)
(* the second and the third are merged and the fourth stays                *)
C30_Witness ==
    /\ Len(h.centroids) = 4
    /\ h.centroids[3].loss = h.centroids[4].loss
    /\ RLess(h.centroids[3].loss, h.centroids[2].loss)
    /\ compressOneBucket(h).centroidCount = 3
    /\ compressOneBucket(h).centroids[2].count
         = h.centroids[2].count + h.centroids[3].count
    /\ SameCentroid(compressOneBucket(h).centroids[3], h.centroids[4])

(* the position of the entry the next compression selects *)
MinPos == FindPos(h.centroids, minLossEntry(h).value)

(* C31: on compression, every marker pointing at prior is retargeted to    *)
(* the merged entry with its offset unchanged, every marker pointing at    *)
(* min is retargeted to the merged entry with offset increased by          *)
(* prior.count, and markers on other centroids are unchanged.              *)
C31_CompressionRetargetsMarkers ==
    h.centroidCount >= 2 =>
        LET priorEntry == h.centroids[MinPos - 1]
            minEntry == h.centroids[MinPos]
            after == compressOneBucket(h)
            merged == after.centroids[MinPos - 1]
        IN  \A i \in MarkerIndices :
                h.markers[i].set =>
                    IF h.markers[i].centroid.value = priorEntry.value
                    THEN /\ after.markers[i].centroid = merged
                         /\ after.markers[i].offset = h.markers[i].offset
                         /\ after.markers[i].rank = h.markers[i].rank
                    ELSE IF h.markers[i].centroid.value = minEntry.value
                    THEN /\ after.markers[i].centroid = merged
                         /\ after.markers[i].offset
                              = h.markers[i].offset + priorEntry.count
                         /\ after.markers[i].rank = h.markers[i].rank
                    ELSE after.markers[i] = h.markers[i]

(* C32: whenever compression runs (from add, append, mergeFrom or a        *)
(* maxCentroids assignment) at least two centroids exist and the entry     *)
(* selected is not the first centroid, so its predecessor exists: the      *)
(* budget never falls below 1, the first entry carries +Infinity, the      *)
(* least loss is never on the first of several entries, and no compression *)
(* has run without a predecessor (fault).                                  *)
C32_CompressionHasPredecessor ==
    /\ ~h.fault
    /\ h.maxCentroids >= 1
    /\ h.centroidCount >= 1 => h.centroids[1].loss = Infinity
    /\ h.centroidCount >= 2 => MinPos >= 2

(* an assignment drained a histogram of several values down to one centroid *)
C32_Witness ==
    /\ lastOp.op = "setMaxCentroids"
    /\ h.centroidCount = 1
    /\ h.maxCentroids = 1
    /\ h.count >= 2
    /\ h.centroids[1].variance # Zero
    /\ ~h.fault

(* the counts of the live centroids with a value smaller than v *)
CountBelow(cs, v) == CumCount(cs, FindPos(cs, v) - 1)

(* C33: after every add (with or without compression and duplicates) each  *)
(* marker is coherent: rank = (sum of the counts of all live centroids     *)
(* with value smaller than the marker's centroid value) + offset + 1.      *)
C33_MarkerRankMatchesOffset ==
    lastOp.op = "add" =>
        \A i \in MarkerIndices :
            /\ h.markers[i].set
            /\ h.markers[i].rank
                 = CountBelow(h.centroids, h.markers[i].centroid.value)
                   + h.markers[i].offset + 1

(* what a marker tracks: rank, offset and the value of its centroid *)
MarkerPosition(m) == <<m.set, m.rank, m.offset, m.centroid.value>>

(* centroids whose value exactly matches a live centroid *)
MatchingCentroids ==
    { Centroid(h.centroids[i].value, n, var) :
        i \in 1..Len(h.centroids), n \in 1..MaxAppendCount, var \in Variances }

ShiftedRank(m, value) ==
    IF RLess(value, m.centroid.value) THEN m.rank + 1 ELSE m.rank

(* C35: whenever marker maintenance has to move a marker off its centroid  *)
(* (forward from the centroid's last position, or backward from offset 0)  *)
(* the adjacent centroid in that direction exists: for every value that    *)
(* creates a new centroid, a marker whose rank is stepped towards its      *)
(* ideal rank also changes its position (offset or centroid).              *)
C35_MarkerStepMovesPosition ==
    \A v \in AddValues :
        ~FindOn(h.centroids, FromInt(v)) =>
            \A i \in MarkerIndices :
                h.markers[i].set =>
                    LET before == h.markers[i]
                        after == addInserted(h, UnitCentroid(v)).markers[i]
                    IN  after.rank # ShiftedRank(before, FromInt(v)) =>
                            <<after.offset, after.centroid.value>>
                               # <<before.offset, before.centroid.value>>

(* the histograms that can be merged into the current one *)
Mergeable == { other \in OtherHistograms : h.count + SumCounts(other) <= MaxCount }

(* C36: mergeFrom(other) performs no compression until all of other's      *)
(* centroids have been inserted: the resulting centroids (value, count,    *)
(* variance, loss) and count are identical to those obtained by raising    *)
(* maxCentroids so that nothing compresses, appending each of other's      *)
(* centroids in ascending value order, and restoring maxCentroids.         *)
C36_MergeDefersCompression ==
    \A other \in Mergeable :
        LET merged   == mergeFrom(h, other)
            replayed == replayMerge(h, other)
        IN  /\ merged.centroids = replayed.centroids
            /\ merged.count = replayed.count

(* a merge of two centroids that has to compress, and on which compressing *)
(* after each insertion would have left other centroids                    *)
C36_Witness ==
    \E other \in Mergeable :
        /\ Len(other) = 2
        /\ h.centroidCount >= 1
        /\ mergeFrom(h, other).centroidCount < h.centroidCount + 2
        /\ mergeFrom(h, other).centroids = replayMerge(h, other).centroids
        /\ mergeFrom(h, other).centroids # appendAll(h, other).centroids

(* C38: on a non-empty histogram, for every quantile q in [0, 1],          *)
(* quantileAt(q) succeeds and returns a result with 1 <= rank <= count and *)
(* 0 <= offset < centroid.count.                                           *)
C38_QuantileAtInRange ==
    h.count > 0 =>
        \A q \in QuantileArgs :
            /\ ~quantileAt(h, q).thrown
            /\ 1 <= quantileAt(h, q).rank
            /\ quantileAt(h, q).rank <= h.count
            /\ 0 <= quantileAt(h, q).offset
            /\ quantileAt(h, q).offset < quantileAt(h, q).centroid.count

(* C39: after any sequence of add, append, mergeFrom and maxCentroids      *)
(* assignments, every live centroid with variance different from 0 has     *)
(* count >= 2, so the interpolation offset / (count - 1) of                *)
(* inferValueFromOffset never divides by zero.                             *)
C39_VarianceNeedsTwoValues ==
    \A i \in 1..Len(h.centroids) :
        h.centroids[i].variance # Zero => h.centroids[i].count >= 2

====
